---- MODULE Spec2Model ----
(***************************************************************************)
(* Model of apply.py: the feature catalogue client, the selection prompt,  *)
(* the file fetcher and the main() pipeline that sequences them.           *)
(*                                                                         *)
(* Text is modelled as sequences of one-character strings.  A remote or    *)
(* local path "a/b/c" is modelled as the sequence of its segments          *)
(* <<"a","b","c">>, so f"{x}/{y}" is <<x>> \o y.                           *)
(***************************************************************************)
EXTENDS Integers, Sequences, FiniteSets, TLC

VARIABLES
    pc,                   \* position of the process in the module / main()
    tokenEnv,             \* GITHUB_API_TOKEN in the environment: "absent", "" or a token
    HEADERS,              \* module constant HEADERS (None or the Authorization header)
    remote,               \* the remote repository: directory path -> listing
    features,             \* main(): features
    chosen_features,      \* main(): chosen_features
    target_dir,           \* main(): target_dir
    total_files,          \* download_feature_files(): total_files
    successful_downloads, \* download_feature_files(): successful_downloads
    fidx,                 \* index of the feature loop (display and download phases)
    feature_files,        \* download_feature_files(): feature_files of the current feature
    kidx,                 \* index of the file loop in download_feature_files()
    fs,                   \* the local file system: [dirs, files]
    out,                  \* standard output, one record per print()
    requests,             \* the HTTP requests issued so far
    args,                 \* arguments of a function exercised on its own
    ret                   \* its result

vars == <<pc, tokenEnv, HEADERS, remote, features, chosen_features, target_dir,
          total_files, successful_downloads, fidx, feature_files, kidx, fs, out,
          requests, args, ret>>

mainVars == <<tokenEnv, HEADERS, remote, features, chosen_features, target_dir,
              total_files, successful_downloads, fidx, feature_files, kidx, fs,
              out, requests>>

None == "None"

\* headers=None and an empty header dict send the same request
NoHeaders == <<>>

(***************************************************************************)
(* Bounds of the model.                                                    *)
(***************************************************************************)
MaxLen == 4        \* longest selection string typed at the prompt

(***************************************************************************)
(* Text helpers: str.strip, str.lower, str.split(","), int().              *)
(***************************************************************************)
Alphabet == {"0", "1", "2", ",", " ", "a", "L", "-"}

Digits == {"0", "1", "2", "3", "4", "5", "6", "7", "8", "9"}

Whitespace == {" "}

RECURSIVE Strings(_)
Strings(n) ==
    IF n = 0 THEN {<<>>}
    ELSE LET shorter == Strings(n - 1)
         IN  shorter \cup {Append(s, c) : s \in {t \in shorter : Len(t) = n - 1}, c \in Alphabet}

RECURSIVE LStrip(_)
LStrip(s) ==
    IF s # <<>> /\ Head(s) \in Whitespace THEN LStrip(Tail(s)) ELSE s

RECURSIVE RStrip(_)
RStrip(s) ==
    IF s # <<>> /\ s[Len(s)] \in Whitespace THEN RStrip(SubSeq(s, 1, Len(s) - 1)) ELSE s

Strip(s) == RStrip(LStrip(s))

LowerChar(c) ==
    CASE c = "A" -> "a"
      [] c = "L" -> "l"
      [] OTHER   -> c

Lower(s) == [i \in 1..Len(s) |-> LowerChar(s[i])]

RECURSIVE SplitComma(_)
SplitComma(s) ==
    IF \A i \in 1..Len(s) : s[i] # ","
    THEN <<s>>
    ELSE LET i == CHOOSE j \in 1..Len(s) : s[j] = "," /\ \A h \in 1..(j - 1) : s[h] # ","
         IN  <<SubSeq(s, 1, i - 1)>> \o SplitComma(SubSeq(s, i + 1, Len(s)))

DigitValue(c) ==
    CASE c = "0" -> 0 [] c = "1" -> 1 [] c = "2" -> 2 [] c = "3" -> 3 [] c = "4" -> 4
      [] c = "5" -> 5 [] c = "6" -> 6 [] c = "7" -> 7 [] c = "8" -> 8 [] c = "9" -> 9

RECURSIVE DigitsValue(_)
DigitsValue(s) ==
    IF s = <<>> THEN 0
    ELSE 10 * DigitsValue(SubSeq(s, 1, Len(s) - 1)) + DigitValue(s[Len(s)])

\* int(x): surrounding whitespace ignored, an optional sign, then one or more
\* decimal digits; anything else raises ValueError (ok = FALSE).
ParseInt(x) ==
    LET t    == Strip(x)
        sign == IF t # <<>> /\ Head(t) \in {"+", "-"} THEN Head(t) ELSE ""
        body == IF sign = "" THEN t ELSE Tail(t)
    IN  IF body = <<>> \/ \E i \in 1..Len(body) : body[i] \notin Digits
        THEN [ok |-> FALSE, val |-> 0]
        ELSE [ok |-> TRUE,
              val |-> IF sign = "-" THEN 0 - DigitsValue(body) ELSE DigitsValue(body)]

(***************************************************************************)
(* get_user_feature_selection: value is the returned list, error tells     *)
(* whether the ValueError branch printed its diagnostic.                   *)
(***************************************************************************)
get_user_feature_selection_partial(selected, feats) ==
    IF Strip(Lower(selected)) = <<"a", "l", "l">>
    THEN [value |-> feats, error |-> FALSE]
    ELSE LET toks   == SplitComma(selected)
             parsed == [i \in 1..Len(toks) |-> ParseInt(Strip(toks[i]))]
             good   == SelectSeq(parsed, LAMBDA p : p.ok /\ p.val - 1 >= 0 /\ p.val - 1 < Len(feats))
         IN  [value |-> [i \in 1..Len(good) |-> feats[good[i].val]],
              error |-> Len(good) # Len(toks)]

get_user_feature_selection_offbyone(selected, feats) ==
    IF Strip(Lower(selected)) = <<"a", "l", "l">>
    THEN [value |-> feats, error |-> FALSE]
    ELSE LET toks    == SplitComma(selected)
             parsed  == [i \in 1..Len(toks) |-> ParseInt(Strip(toks[i]))]
             indices == [i \in 1..Len(toks) |-> parsed[i].val]
         IN  IF \E i \in 1..Len(toks) : ~parsed[i].ok
             THEN [value |-> <<>>, error |-> TRUE]
             ELSE IF \E i \in 1..Len(indices) : indices[i] < 0 \/ indices[i] >= Len(feats)
                  THEN [value |-> <<>>, error |-> TRUE]
                  ELSE [value |-> [i \in 1..Len(indices) |-> feats[indices[i] + 1]],
                        error |-> FALSE]

get_user_feature_selection(selected, feats) ==
    IF Strip(Lower(selected)) = <<"a", "l", "l">>
    THEN [value |-> feats, error |-> FALSE]
    ELSE LET toks    == SplitComma(selected)
             parsed  == [i \in 1..Len(toks) |-> ParseInt(Strip(toks[i]))]
             indices == [i \in 1..Len(toks) |-> parsed[i].val - 1]
         IN  IF \E i \in 1..Len(toks) : ~parsed[i].ok
             THEN [value |-> <<>>, error |-> TRUE]
             ELSE IF \E i \in 1..Len(indices) : indices[i] < 0 \/ indices[i] >= Len(feats)
                  THEN [value |-> <<>>, error |-> TRUE]
                  ELSE [value |-> [i \in 1..Len(indices) |-> feats[indices[i] + 1]],
                        error |-> FALSE]

(***************************************************************************)
(* The remote repository.  A directory tree is a sequence of entries in    *)
(* the order the contents endpoint returns them; Flatten turns it into     *)
(* what the endpoint serves: for every directory path, its JSON listing.   *)
(***************************************************************************)
MaxDepth == 2      \* directory levels of a feature, the feature directory included

Names == {"a", "b"}

NameSeqs(S) ==
    UNION {{s \in [1..k -> S] : \A i, j \in 1..k : i # j => s[i] # s[j]} : k \in 0..Cardinality(S)}

RECURSIVE Listings(_, _)
RECURSIVE ListingsFor(_, _, _)
ListingsFor(ns, S, d) ==
    IF ns = <<>> THEN {<<>>}
    ELSE LET entries == {[name |-> Head(ns), type |-> "file", children |-> <<>>]}
                        \cup (IF d > 1
                              THEN {[name |-> Head(ns), type |-> "dir", children |-> c] :
                                        c \in Listings(S, d - 1)}
                              ELSE {})
         IN  {<<e>> \o rest : e \in entries, rest \in ListingsFor(Tail(ns), S, d)}

Listings(S, d) == UNION {ListingsFor(ns, S, d) : ns \in NameSeqs(S)}

Json(tree) == [i \in 1..Len(tree) |-> [name |-> tree[i].name, type |-> tree[i].type]]

RECURSIVE DirListings(_, _)
DirListings(tree, path) ==
    {<<path, Json(tree)>>}
    \cup UNION {DirListings(tree[i].children, Append(path, tree[i].name)) :
                    i \in {j \in 1..Len(tree) : tree[j].type = "dir"}}

Flatten(tree) ==
    LET D == DirListings(tree, <<>>)
    IN  [p \in {x[1] : x \in D} |-> (CHOOSE x \in D : x[1] = p)[2]]

(***************************************************************************)
(* fetch_feature_files.  faults is the set of directory paths whose        *)
(* listing request fails during this call (raise_for_status raises).       *)
(* ok = FALSE stands for the RequestException leaving the call; reqs are   *)
(* the directory paths requested, in order.                                *)
(***************************************************************************)
RECURSIVE fetch_feature_files_noprefix(_, _, _)
RECURSIVE fetch_items_noprefix(_, _, _, _)
fetch_items_noprefix(r, feature_name, faults, i) ==
    IF i > Len(r[feature_name]) THEN [ok |-> TRUE, files |-> <<>>, reqs |-> <<>>]
    ELSE LET item == r[feature_name][i]
             sub  == IF item.type = "dir"
                     THEN fetch_feature_files_noprefix(r, Append(feature_name, item.name), faults)
                     ELSE [ok |-> TRUE, files |-> <<>>, reqs |-> <<>>]
             here == (IF item.type = "file" THEN <<<<item.name>>>> ELSE <<>>) \o sub.files
         IN  IF ~sub.ok THEN [ok |-> FALSE, files |-> <<>>, reqs |-> sub.reqs]
             ELSE LET rest == fetch_items_noprefix(r, feature_name, faults, i + 1)
                  IN  IF ~rest.ok
                      THEN [ok |-> FALSE, files |-> <<>>, reqs |-> sub.reqs \o rest.reqs]
                      ELSE [ok |-> TRUE, files |-> here \o rest.files,
                            reqs |-> sub.reqs \o rest.reqs]

fetch_feature_files_noprefix(r, feature_name, faults) ==
    IF feature_name \in faults \/ feature_name \notin DOMAIN r
    THEN [ok |-> FALSE, files |-> <<>>, reqs |-> <<feature_name>>]
    ELSE LET res == fetch_items_noprefix(r, feature_name, faults, 1)
         IN  [ok |-> res.ok, files |-> res.files, reqs |-> <<feature_name>> \o res.reqs]

RECURSIVE fetch_feature_files(_, _, _)
RECURSIVE fetch_items(_, _, _, _)
\* the loop body of fetch_feature_files for data[i], then the rest of the loop
fetch_items(r, feature_name, faults, i) ==
    IF i > Len(r[feature_name]) THEN [ok |-> TRUE, files |-> <<>>, reqs |-> <<>>]
    ELSE LET item == r[feature_name][i]
             sub  == IF item.type = "dir"
                     THEN fetch_feature_files(r, Append(feature_name, item.name), faults)
                     ELSE [ok |-> TRUE, files |-> <<>>, reqs |-> <<>>]
             here == (IF item.type = "file" THEN <<<<item.name>>>> ELSE <<>>)
                     \o [j \in 1..Len(sub.files) |-> <<item.name>> \o sub.files[j]]
         IN  IF ~sub.ok THEN [ok |-> FALSE, files |-> <<>>, reqs |-> sub.reqs]
             ELSE LET rest == fetch_items(r, feature_name, faults, i + 1)
                  IN  IF ~rest.ok
                      THEN [ok |-> FALSE, files |-> <<>>, reqs |-> sub.reqs \o rest.reqs]
                      ELSE [ok |-> TRUE, files |-> here \o rest.files,
                            reqs |-> sub.reqs \o rest.reqs]

fetch_feature_files(r, feature_name, faults) ==
    IF feature_name \in faults \/ feature_name \notin DOMAIN r
    THEN [ok |-> FALSE, files |-> <<>>, reqs |-> <<feature_name>>]
    ELSE LET res == fetch_items(r, feature_name, faults, 1)
         IN  [ok |-> res.ok, files |-> res.files, reqs |-> <<feature_name>> \o res.reqs]

\* fetch_available_features: the names of the entries of the features directory
fetch_available_features(r, fault) ==
    IF fault THEN [ok |-> FALSE, features |-> <<>>]
    ELSE [ok |-> TRUE, features |-> [i \in 1..Len(r[<<>>]) |-> r[<<>>][i].name]]

(***************************************************************************)
(* The functions exercised on their own: Init draws the arguments, one     *)
(* action applies the function.                                            *)
(***************************************************************************)
Idle ==
    /\ tokenEnv = "absent" /\ HEADERS = NoHeaders
    /\ features = <<>> /\ chosen_features = <<>> /\ target_dir = ""
    /\ total_files = 0 /\ successful_downloads = 0
    /\ fidx = 0 /\ feature_files = <<>> /\ kidx = 0
    /\ out = <<>> /\ requests = {}

EmptyFs == [dirs |-> {<<>>}, files |-> <<>>]

InitSelection ==
    /\ Idle /\ remote = Flatten(<<>>) /\ fs = EmptyFs
    /\ pc = "call"
    /\ args \in [selected : Strings(MaxLen),
                 features : {SubSeq(<<"auth", "logging">>, 1, n) : n \in 0..2}]
    /\ ret = None

CallSelection ==
    /\ pc = "call"
    /\ ret' = get_user_feature_selection(args.selected, args.features)
    /\ pc' = "returned"
    /\ UNCHANGED <<mainVars, args>>

SpecSelection == InitSelection /\ [][CallSelection]_vars

DirFaults(r) == {{}} \cup {{p} : p \in DOMAIN r \ {<<>>}}

InitListing ==
    /\ Idle /\ fs = EmptyFs
    /\ pc = "call"
    /\ \E tree \in Listings(Names, MaxDepth) :
          remote = Flatten(<<[name |-> "auth", type |-> "dir", children |-> tree]>>)
    /\ \E faults \in DirFaults(remote) :
          args = [feature_name |-> <<"auth">>, faults |-> faults]
    /\ ret = None

CallListing ==
    /\ pc = "call"
    /\ ret' = fetch_feature_files(remote, args.feature_name, args.faults)
    /\ pc' = "returned"
    /\ UNCHANGED <<mainVars, args>>

SpecListing == InitListing /\ [][CallListing]_vars

(***************************************************************************)
(* What a selection string denotes, stated on the text itself: its fields  *)
(* are the stretches between consecutive commas, and a field denotes the   *)
(* index n when it is the decimal numeral of n, possibly signed "+",       *)
(* zero-padded and surrounded by blanks.                                   *)
(***************************************************************************)
Rep(c, n) == [i \in 1..n |-> c]

DigitChar(d) ==
    CASE d = 0 -> "0" [] d = 1 -> "1" [] d = 2 -> "2" [] d = 3 -> "3" [] d = 4 -> "4"
      [] d = 5 -> "5" [] d = 6 -> "6" [] d = 7 -> "7" [] d = 8 -> "8" [] d = 9 -> "9"

RECURSIVE Numeral(_)
Numeral(n) ==
    IF n < 10 THEN <<DigitChar(n)>> ELSE Append(Numeral(n \div 10), DigitChar(n % 10))

Denotes(tok, n) ==
    \E sign \in {<<>>, <<"+">>} : \E a, z \in 0..Len(tok) :
        LET b == Len(tok) - a - Len(sign) - z - Len(Numeral(n))
        IN  b >= 0 /\ tok = Rep(" ", a) \o sign \o Rep("0", z) \o Numeral(n) \o Rep(" ", b)

Cuts(s) == {0} \cup {i \in 1..Len(s) : s[i] = ","} \cup {Len(s) + 1}

NthCut(s, k) == CHOOSE c \in Cuts(s) : Cardinality({d \in Cuts(s) : d < c}) = k

NumFields(s) == Cardinality(Cuts(s)) - 1

Field(s, j) == SubSeq(s, NthCut(s, j - 1) + 1, NthCut(s, j) - 1)

IsAllWord(s) ==
    \E a, b \in 0..Len(s) : \E w \in {"a", "A"} \X {"l", "L"} \X {"l", "L"} :
        s = Rep(" ", a) \o w \o Rep(" ", b)

ValidField(s, j, N) == \E n \in 1..N : Denotes(Field(s, j), n)

\* C1: a selection that is not "all" and has a field that is no integer or an
\* index outside [1, N] yields the empty list, never the valid part of it.
C1_AllOrNothing ==
    pc = "returned" /\ "selected" \in DOMAIN args =>
        LET s == args.selected
            N == Len(args.features)
        IN  (~IsAllWord(s) /\ \E j \in 1..NumFields(s) : ~ValidField(s, j, N))
                => ret.value = <<>>

C1_Witness ==
    /\ pc = "returned" /\ "selected" \in DOMAIN args
    /\ LET s == args.selected
           N == Len(args.features)
       IN  /\ ~IsAllWord(s)
           /\ \E j \in 1..NumFields(s) : ~ValidField(s, j, N)
           /\ \E j \in 1..NumFields(s) : ValidField(s, j, N)
           /\ ret.value = <<>>

\* C2: a comma-separated list of integers, each within [1, N], yields exactly
\* the features at those indices: same length, same order, repeats kept.
C2_ExactSelection ==
    pc = "returned" /\ "selected" \in DOMAIN args =>
        LET s == args.selected
            N == Len(args.features)
            k == NumFields(s)
        IN  (\A j \in 1..k : ValidField(s, j, N))
                => ret.value = [j \in 1..k |->
                                  args.features[CHOOSE n \in 1..N : Denotes(Field(s, j), n)]]

C2_Witness ==
    /\ pc = "returned" /\ "selected" \in DOMAIN args
    /\ LET s == args.selected
           N == Len(args.features)
       IN  /\ N = 2 /\ NumFields(s) = 2
           /\ \A j \in 1..2 : ValidField(s, j, N)
           /\ Len(ret.value) = 2 /\ ret.value[1] = ret.value[2]
           /\ ret.value[1] = args.features[2]

(***************************************************************************)
(* What a listing must be, stated on the remote's directory listings.      *)
(***************************************************************************)
IsPrefix(p, q) == Len(p) <= Len(q) /\ SubSeq(q, 1, Len(p)) = p

Pos(r, dir, name) == CHOOSE i \in 1..Len(r[dir]) : r[dir][i].name = name

IsFileAt(r, path) ==
    /\ path # <<>>
    /\ SubSeq(path, 1, Len(path) - 1) \in DOMAIN r
    /\ \E i \in 1..Len(r[SubSeq(path, 1, Len(path) - 1)]) :
          LET e == r[SubSeq(path, 1, Len(path) - 1)][i]
          IN  e.name = path[Len(path)] /\ e.type = "file"

\* the files of the tree under root, as paths relative to root
FilesUnder(r, root) ==
    UNION {{SubSeq(d, Len(root) + 1, Len(d)) \o <<r[d][i].name>> :
                i \in {j \in 1..Len(r[d]) : r[d][j].type = "file"}} :
           d \in {x \in DOMAIN r : IsPrefix(root, x)}}

\* p comes before q in depth-first order: where they part, p's entry is listed first
DepthFirstBefore(r, root, p, q) ==
    \E k \in 1..Len(p) :
        /\ k <= Len(q)
        /\ SubSeq(p, 1, k - 1) = SubSeq(q, 1, k - 1)
        /\ p[k] # q[k]
        /\ Pos(r, root \o SubSeq(p, 1, k - 1), p[k]) < Pos(r, root \o SubSeq(q, 1, k - 1), q[k])

\* C9: without a failing request the result holds each file of the tree once,
\* as its path relative to the feature, in depth-first order; with a failing
\* request anywhere in the tree the call fails and returns no list.
C9_RecursiveListing ==
    pc = "returned" /\ "feature_name" \in DOMAIN args =>
        LET root  == args.feature_name
            under == {d \in DOMAIN remote : IsPrefix(root, d)}
        IN  IF args.faults \cap under # {}
            THEN ~ret.ok /\ ret.files = <<>>
            ELSE /\ ret.ok
                 /\ {ret.files[i] : i \in 1..Len(ret.files)} = FilesUnder(remote, root)
                 /\ Len(ret.files) = Cardinality(FilesUnder(remote, root))
                 /\ \A i \in 1..Len(ret.files) : IsFileAt(remote, root \o ret.files[i])
                 /\ \A i, j \in 1..Len(ret.files) :
                        i < j => DepthFirstBefore(remote, root, ret.files[i], ret.files[j])

\* a nested file behind an earlier directory and before a later top-level file
C9_Witness ==
    /\ pc = "returned" /\ "feature_name" \in DOMAIN args
    /\ args.faults = {}
    /\ ret.ok
    /\ Len(ret.files) >= 2
    /\ Len(ret.files[1]) = 2 /\ Len(ret.files[2]) = 1

C9_WitnessFault ==
    /\ pc = "returned" /\ "feature_name" \in DOMAIN args
    /\ \E d \in args.faults : Len(d) = 2 /\ remote[<<"auth">>][1].type = "file"
    /\ ~ret.ok /\ ret.files = <<>>

(***************************************************************************)
(* The local file system and the file fetcher.                             *)
(***************************************************************************)
MaxBody == 2       \* longest response body, in bytes

Bytes == {0, 255}

Bodies == UNION {[1..n -> Bytes] : n \in 0..MaxBody}

Parent(path) == SubSeq(path, 1, Len(path) - 1)

Ancestors(path) == {SubSeq(path, 1, n) : n \in 0..Len(path)}

\* Path.mkdir(parents=True, exist_ok=True) / os.makedirs(exist_ok=True):
\* oserr is a fault of the file system (permissions, disk full)
mkdir_parents(f, dir, oserr) ==
    IF oserr \/ Ancestors(dir) \cap DOMAIN f.files # {}
    THEN [ok |-> FALSE, fs |-> f]
    ELSE [ok |-> TRUE, fs |-> [f EXCEPT !.dirs = @ \cup Ancestors(dir)]]

WriteFile(f, path, content) ==
    [f EXCEPT !.files = [q \in DOMAIN @ \cup {path} |-> IF q = path THEN content ELSE @[q]]]

\* resp is the HTTP response; fault is "none", "open" (open() raises) or
\* "write" (write() raises after the file was opened and truncated)
download_feature_file(f, url, path, resp, fault) ==
    IF ~resp.ok
    THEN [outcome |-> "RequestException", fs |-> f, printed |-> <<>>]
    ELSE IF fault = "open" \/ Parent(path) \notin f.dirs \/ path \in f.dirs
         THEN [outcome |-> "OSError", fs |-> f, printed |-> <<>>]
         ELSE IF fault = "write"
              THEN [outcome |-> "OSError", fs |-> WriteFile(f, path, <<>>), printed |-> <<>>]
              ELSE [outcome |-> "ok", fs |-> WriteFile(f, path, resp.content),
                    printed |-> <<[msg |-> "downloaded", path |-> path]>>]

FetcherPaths == {<<"main.py">>, <<"out", "main.py">>, <<"out", "sub", "helper.py">>}

FetcherDirs == {{<<>>}, {<<>>, <<"out">>}, {<<>>, <<"out">>, <<"out", "sub">>}}

InitFetcher ==
    /\ Idle /\ remote = Flatten(<<>>)
    /\ pc = "call"
    /\ \E dirs \in FetcherDirs, old \in {<<>>} \cup {<<"main.py">> :> <<0>>} :
          fs = [dirs |-> dirs, files |-> old]
    /\ \E path \in FetcherPaths, ok \in BOOLEAN, body \in Bodies,
          fault \in {"none", "open", "write"} :
          args = [url |-> <<"raw", "auth">> \o path, path |-> path,
                  resp |-> [ok |-> ok, content |-> body], fault |-> fault]
    /\ ret = None

CallFetcher ==
    /\ pc = "call"
    /\ LET res == download_feature_file(fs, args.url, args.path, args.resp, args.fault)
       IN  /\ fs' = res.fs
           /\ ret' = res.outcome
           /\ out' = out \o res.printed
    /\ pc' = "returned"
    /\ UNCHANGED <<tokenEnv, HEADERS, remote, features, chosen_features, target_dir,
                   total_files, successful_downloads, fidx, feature_files, kidx,
                   requests, args>>

SpecFetcher == InitFetcher /\ [][CallFetcher]_vars

\* C7: with a successful response and no file-system fault,
\* download_feature_file creates the missing parent directories of path and
\* leaves exactly the response body in it.
C7_FetcherCreatesParents ==
    (/\ pc = "returned" /\ "resp" \in DOMAIN args
     /\ args.resp.ok /\ args.fault = "none"
     /\ args.path \notin fs.dirs
     /\ Ancestors(Parent(args.path)) \cap DOMAIN fs.files = {})
        => /\ ret = "ok"
           /\ Parent(args.path) \in fs.dirs
           /\ args.path \in DOMAIN fs.files
           /\ fs.files[args.path] = args.resp.content

(***************************************************************************)
(* main(): the pipeline.                                                   *)
(***************************************************************************)
MaxTyped == 3      \* longest selection string typed in a run of main()

File(n) == [name |-> n, type |-> "file", children |-> <<>>]

Dir(n, c) == [name |-> n, type |-> "dir", children |-> c]

\* the feature directories a run may meet: empty, one file, a nested file
\* next to a file, and a file named like the other tree's directory
FeatureTrees ==
    {<<>>, <<File("a")>>, <<Dir("b", <<File("a")>>), File("a")>>, <<File("b")>>}

Remotes ==
    {Flatten(<<>>)}
    \cup {Flatten(<<Dir("auth", t)>>) : t \in FeatureTrees}
    \cup {Flatten(<<Dir("auth", t), Dir("logging", u)>>) : t, u \in FeatureTrees}

TypedAlphabet == {"1", "2", ",", "a", "L"}

RECURSIVE Typed(_)
Typed(n) ==
    IF n = 0 THEN {<<>>}
    ELSE LET shorter == Typed(n - 1)
         IN  shorter \cup {Append(s, c) : s \in {t \in shorter : Len(t) = n - 1},
                                           c \in TypedAlphabet}

TargetInputs ==
    {Rep(" ", a) \o w \o Rep(" ", b) : a, b \in 0..1, w \in {<<>>, <<"out">>}}

\* the text of a stripped answer of at most one word
Text(s) == IF s = <<>> THEN "" ELSE s[1]

PathOf(dir) == IF dir = "." THEN <<>> ELSE <<dir>>

FilePath_perfeature(dir, feature, file) == PathOf(dir) \o <<feature>> \o file

\* file_path = Path(target_dir) / file
FilePath(dir, feature, file) == PathOf(dir) \o file

ApiUrl(path) == <<"api", "features">> \o path

\* f"{RAW_URL}/{feature}/{file}"
RawUrl(feature, file) == <<"raw", "features", feature>> \o file

\* the raw endpoint serves, at each URL, the bytes of that file; they are
\* modelled as one token naming the URL
RawContent(url) == <<url>>

Sent(urls, headers) == {[url |-> urls[i], headers |-> headers] : i \in 1..Len(urls)}

ListingFaults(r, feature) ==
    {{}} \cup {{p} : p \in {d \in DOMAIN r : IsPrefix(<<feature>>, d)}}

Init ==
    /\ pc = "import"
    /\ tokenEnv \in {"absent", "", "t0k3n"}
    /\ HEADERS = NoHeaders
    /\ remote \in Remotes
    /\ features = <<>> /\ chosen_features = <<>> /\ target_dir = ""
    /\ total_files = 0 /\ successful_downloads = 0
    /\ fidx = 0 /\ feature_files = <<>> /\ kidx = 0
    /\ fs = EmptyFs
    /\ out = <<>> /\ requests = {}
    /\ args = None /\ ret = None

\* module level: env.str("GITHUB_API_TOKEN") has no default and raises when the
\* variable is set neither in the environment nor in .env
Startup ==
    /\ pc = "import"
    /\ IF tokenEnv = "absent"
       THEN /\ pc' = "crashed"
            /\ UNCHANGED HEADERS
       ELSE /\ HEADERS' = IF tokenEnv # ""
                          THEN <<"Authorization", "token", tokenEnv>> ELSE NoHeaders
            /\ pc' = "fetch_catalog"
    /\ UNCHANGED <<out, tokenEnv, remote, features, chosen_features, target_dir, total_files,
                   successful_downloads, fidx, feature_files, kidx, fs, requests,
                   args, ret>>

\* main(): fetch_available_features(), then the header of display_available_features
FetchCatalog ==
    /\ pc = "fetch_catalog"
    /\ \E fault \in BOOLEAN :
          LET res == fetch_available_features(remote, fault)
          IN  /\ requests' = requests \cup Sent(<<ApiUrl(<<>>)>>, HEADERS)
              /\ IF res.ok
                 THEN /\ features' = res.features
                      /\ out' = out \o <<[msg |-> "fetching"], [msg |-> "available"]>>
                      /\ fidx' = 1
                      /\ pc' = IF res.features = <<>> THEN "select" ELSE "display"
                 ELSE /\ out' = out \o <<[msg |-> "fetching"], [msg |-> "connect_error"],
                                        [msg |-> "check_connection"]>>
                      /\ pc' = "done"
                      /\ UNCHANGED <<features, fidx>>
    /\ UNCHANGED <<tokenEnv, HEADERS, remote, chosen_features, target_dir, total_files,
                   successful_downloads, feature_files, kidx, fs, args, ret>>

\* one iteration of the loop of display_available_features
DisplayFeature_stop(feature, res) ==
    /\ out' = out \o <<[msg |-> "feature", idx |-> fidx, feature |-> feature]>>
                  \o (IF res.ok
                      THEN <<[msg |-> "feature_files", feature |-> feature, files |-> res.files]>>
                      ELSE <<[msg |-> "warning", feature |-> feature]>>)
    /\ fidx' = IF res.ok THEN fidx + 1 ELSE fidx
    /\ pc' = IF fidx = Len(features) \/ ~res.ok THEN "select" ELSE "display"

DisplayFeature(feature, res) ==
    /\ out' = out \o <<[msg |-> "feature", idx |-> fidx, feature |-> feature]>>
                  \o (IF res.ok
                      THEN <<[msg |-> "feature_files", feature |-> feature, files |-> res.files]>>
                      ELSE <<[msg |-> "warning", feature |-> feature]>>)
    /\ fidx' = fidx + 1
    /\ pc' = IF fidx = Len(features) THEN "select" ELSE "display"

DisplayStep ==
    /\ pc = "display"
    /\ \E faults \in ListingFaults(remote, features[fidx]) :
          LET res == fetch_feature_files(remote, <<features[fidx]>>, faults)
          IN  /\ requests' = requests \cup Sent([i \in 1..Len(res.reqs) |-> ApiUrl(res.reqs[i])],
                                               HEADERS)
              /\ DisplayFeature(features[fidx], res)
    /\ UNCHANGED <<tokenEnv, HEADERS, remote, features, chosen_features, target_dir,
                   total_files, successful_downloads, feature_files, kidx, fs, args, ret>>

\* main(): get_user_feature_selection(features) and the early return after it
SelectStep ==
    /\ pc = "select"
    /\ \E selected \in Typed(MaxTyped) :
          LET res == get_user_feature_selection(selected, features)
          IN  /\ chosen_features' = res.value
              /\ out' = out \o (IF res.error
                                THEN <<[msg |-> "invalid_input"], [msg |-> "please_enter"]>>
                                ELSE <<>>)
              /\ pc' = IF res.value = <<>> THEN "done" ELSE "target"
    /\ UNCHANGED <<tokenEnv, HEADERS, remote, features, target_dir, total_files,
                   successful_downloads, fidx, feature_files, kidx, fs, requests,
                   args, ret>>

\* setup_target_directory(): the returned directory, "" on failure
setup_target_directory(f, answer, oserr) ==
    LET dir == IF Text(Strip(answer)) = "" THEN "." ELSE Text(Strip(answer))
        mk  == mkdir_parents(f, PathOf(dir), oserr)
    IN  IF mk.ok
        THEN [value |-> dir, fs |-> mk.fs, printed |-> <<[msg |-> "target", dir |-> dir]>>]
        ELSE [value |-> "", fs |-> f, printed |-> <<[msg |-> "mkdir_error", dir |-> dir]>>]

\* main(): setup_target_directory() and the early return after it
AfterTarget_noreturn(dir) == "download"

\* main(): "if not target_dir: return"
AfterTarget(dir) == IF dir = "" THEN "done" ELSE "download"

TargetStep ==
    /\ pc = "target"
    /\ \E answer \in TargetInputs, oserr \in BOOLEAN :
          LET res == setup_target_directory(fs, answer, oserr)
          IN  /\ target_dir' = res.value
              /\ fs' = res.fs
              /\ out' = out \o res.printed
              /\ pc' = AfterTarget(res.value)
    /\ fidx' = 1 /\ kidx' = 0
    /\ UNCHANGED <<tokenEnv, HEADERS, remote, features, chosen_features, total_files,
                   successful_downloads, feature_files, requests, args, ret>>

(***************************************************************************)
(* download_feature_files(): the loop over the chosen features and, inside *)
(* it, the loop over the files of one feature.                             *)
(***************************************************************************)
download_one_countlate(f, dir, feature, file, counters, mkfault, resp, fault) ==
    LET path == FilePath(dir, feature, file)
        mk   == mkdir_parents(f, Parent(path), mkfault)
        dl   == download_feature_file(mk.fs, RawUrl(feature, file), path, resp, fault)
    IN  IF ~mk.ok
        THEN [fs |-> f, total |-> counters.total, successful |-> counters.successful,
              reqs |-> <<>>, printed |-> <<[msg |-> "error_saving", file |-> file]>>]
        ELSE [fs |-> dl.fs,
              total |-> IF dl.outcome = "ok" THEN counters.total + 1 ELSE counters.total,
              successful |-> IF dl.outcome = "ok" THEN counters.successful + 1
                             ELSE counters.successful,
              reqs |-> <<RawUrl(feature, file)>>,
              printed |-> CASE dl.outcome = "ok" -> dl.printed
                            [] dl.outcome = "RequestException" ->
                                   <<[msg |-> "error_downloading", file |-> file]>>
                            [] dl.outcome = "OSError" ->
                                   <<[msg |-> "error_saving", file |-> file]>>]

\* the body of "for file in feature_files"
download_one(f, dir, feature, file, counters, mkfault, resp, fault) ==
    LET path == FilePath(dir, feature, file)
        mk   == mkdir_parents(f, Parent(path), mkfault)
        dl   == download_feature_file(mk.fs, RawUrl(feature, file), path, resp, fault)
    IN  IF ~mk.ok
        THEN [fs |-> f, total |-> counters.total + 1, successful |-> counters.successful,
              reqs |-> <<>>, printed |-> <<[msg |-> "error_saving", file |-> file]>>]
        ELSE [fs |-> dl.fs, total |-> counters.total + 1,
              successful |-> IF dl.outcome = "ok" THEN counters.successful + 1
                             ELSE counters.successful,
              reqs |-> <<RawUrl(feature, file)>>,
              printed |-> CASE dl.outcome = "ok" -> dl.printed
                            [] dl.outcome = "RequestException" ->
                                   <<[msg |-> "error_downloading", file |-> file]>>
                            [] dl.outcome = "OSError" ->
                                   <<[msg |-> "error_saving", file |-> file]>>]

\* where the loops stand after the current feature
NextFeature ==
    /\ kidx' = 0
    /\ fidx' = fidx + 1
    /\ pc' = IF fidx = Len(chosen_features) THEN "summary" ELSE "download"

\* "for feature in chosen_features": the print and the listing of one feature
ProcessFeature ==
    /\ pc = "download" /\ kidx = 0
    /\ \E faults \in ListingFaults(remote, chosen_features[fidx]) :
          LET feature == chosen_features[fidx]
              res     == fetch_feature_files(remote, <<feature>>, faults)
          IN  /\ requests' = requests \cup Sent([i \in 1..Len(res.reqs) |-> ApiUrl(res.reqs[i])],
                                               HEADERS)
              /\ out' = out \o <<[msg |-> "processing", feature |-> feature]>>
                            \o (IF res.ok THEN <<>>
                                ELSE <<[msg |-> "error_processing", feature |-> feature]>>)
              /\ IF res.ok /\ res.files # <<>>
                 THEN /\ feature_files' = res.files
                      /\ kidx' = 1
                      /\ UNCHANGED <<fidx, pc>>
                 ELSE /\ feature_files' = IF res.ok THEN res.files ELSE feature_files
                      /\ NextFeature
    /\ UNCHANGED <<tokenEnv, HEADERS, remote, features, chosen_features, target_dir,
                   total_files, successful_downloads, fs, args, ret>>

\* "for file in feature_files": one file
DownloadFile ==
    /\ pc = "download" /\ kidx >= 1
    /\ \E mkfault \in BOOLEAN, ok \in BOOLEAN, fault \in {"none", "write"} :
          LET feature == chosen_features[fidx]
              file    == feature_files[kidx]
              res     == download_one(fs, target_dir, feature, file,
                                      [total |-> total_files,
                                       successful |-> successful_downloads],
                                      mkfault,
                                      [ok |-> ok, content |-> RawContent(RawUrl(feature, file))],
                                      fault)
          IN  /\ fs' = res.fs
              /\ total_files' = res.total
              /\ successful_downloads' = res.successful
              /\ requests' = requests \cup Sent(res.reqs, HEADERS)
              /\ out' = out \o res.printed
    /\ IF kidx = Len(feature_files)
       THEN NextFeature
       ELSE kidx' = kidx + 1 /\ UNCHANGED <<fidx, pc>>
    /\ UNCHANGED <<tokenEnv, HEADERS, remote, features, chosen_features, target_dir,
                   feature_files, args, ret>>

display_summary_noguard(total, successful) ==
    IF successful = total THEN "all_applied"
    ELSE IF successful > 0 THEN "partial"
    ELSE "none_downloaded"

\* display_summary(): which of the three closing messages is printed
display_summary(total, successful) ==
    IF successful = total /\ total > 0 THEN "all_applied"
    ELSE IF successful > 0 THEN "partial"
    ELSE "none_downloaded"

SummaryStep ==
    /\ pc = "summary"
    /\ out' = Append(out, [msg |-> "summary", total |-> total_files,
                           successful |-> successful_downloads,
                           failed |-> total_files - successful_downloads,
                           verdict |-> display_summary(total_files, successful_downloads)])
    /\ pc' = "done"
    /\ UNCHANGED <<tokenEnv, HEADERS, remote, features, chosen_features, target_dir,
                   total_files, successful_downloads, fidx, feature_files, kidx, fs,
                   requests, args, ret>>

\* main(): "except KeyboardInterrupt"
Interrupt ==
    /\ pc \in {"fetch_catalog", "display", "select", "target", "download", "summary"}
    /\ out' = Append(out, [msg |-> "cancelled"])
    /\ pc' = "done"
    /\ UNCHANGED <<tokenEnv, HEADERS, remote, features, chosen_features, target_dir,
                   total_files, successful_downloads, fidx, feature_files, kidx, fs,
                   requests, args, ret>>

Next ==
    \/ Startup
    \/ FetchCatalog
    \/ DisplayStep
    \/ SelectStep
    \/ TargetStep
    \/ ProcessFeature
    \/ DownloadFile
    \/ SummaryStep
    \/ Interrupt

Spec == Init /\ [][Next]_vars

(***************************************************************************)
(* Reading standard output back: what was printed, and for which feature.  *)
(***************************************************************************)
FileMsgs == {"downloaded", "error_downloading", "error_saving"}

At(kinds) == {i \in 1..Len(out) : out[i].msg \in kinds}

SummaryPrinted == At({"summary"}) # {}

\* the k-th position, in order, of a set of positions
Nth(P, k) == CHOOSE i \in P : Cardinality({j \in P : j < i}) = k - 1

\* what download_feature_files printed for the k-th chosen feature, after
\* its "Processing feature" line
Segment(k) ==
    LET P     == At({"processing"})
        start == Nth(P, k)
        stop  == IF k < Cardinality(P) THEN Nth(P, k + 1)
                 ELSE IF SummaryPrinted THEN Nth(At({"summary"}), 1)
                 ELSE Len(out) + 1
    IN  SubSeq(out, start + 1, stop - 1)

\* the files of a feature when every listing request succeeds
FilesOf(feature) == fetch_feature_files(remote, <<feature>>, {}).files

ListingFailed(k) == \E i \in 1..Len(Segment(k)) : Segment(k)[i].msg = "error_processing"

\* the file a per-file line of the k-th segment is about
Attempted(k, m) ==
    IF m.msg = "downloaded"
    THEN SubSeq(m.path, Len(PathOf(target_dir)) + 1, Len(m.path))
    ELSE m.file

\* C3: a run that reaches the summary attempted every file of every chosen
\* feature whose listing succeeded, in order, whatever failed before it;
\* total_files counts the attempts, successful_downloads the completed ones,
\* and after a failed file successful_downloads < total_files.
C3_FailureDoesNotStop ==
    SummaryPrinted =>
        /\ Cardinality(At({"processing"})) = Len(chosen_features)
        /\ \A k \in 1..Len(chosen_features) :
              ~ListingFailed(k) =>
                  /\ Len(Segment(k)) = Len(FilesOf(chosen_features[k]))
                  /\ \A j \in 1..Len(Segment(k)) :
                        /\ Segment(k)[j].msg \in FileMsgs
                        /\ Attempted(k, Segment(k)[j]) = FilesOf(chosen_features[k])[j]
        /\ total_files = Cardinality(At(FileMsgs))
        /\ successful_downloads = Cardinality(At({"downloaded"}))
        /\ (At({"error_downloading", "error_saving"}) # {}
                => successful_downloads < total_files)

\* a failed first file, then a completed file of the same feature and a
\* completed file of a later feature
C3_Witness ==
    /\ SummaryPrinted
    /\ Len(chosen_features) = 2
    /\ ~ListingFailed(1) /\ ~ListingFailed(2)
    /\ Len(Segment(1)) = 2 /\ Len(Segment(2)) >= 1
    /\ Segment(1)[1].msg = "error_downloading"
    /\ Segment(1)[2].msg = "downloaded"
    /\ Segment(2)[1].msg = "downloaded"
    /\ total_files = 3 /\ successful_downloads = 2

RECURSIVE SumLen(_)
SumLen(k) ==
    IF k = 0 THEN 0
    ELSE SumLen(k - 1)
         + (IF ListingFailed(k) THEN 0 ELSE Len(FilesOf(chosen_features[k])))

\* C4: the display lists every feature of the catalogue in order, each with
\* its files or a warning, and past the display all of them were listed; a run
\* that reaches the summary processed every chosen feature in order, a
\* feature whose listing failed printed only that error, and total_files is
\* the number of files of the other chosen features.
C4_ListingFailureSkipsFeature ==
    /\ LET H == At({"feature"})
       IN  /\ \A i \in 1..Cardinality(H) :
                 /\ i <= Len(features)
                 /\ out[Nth(H, i)].feature = features[i]
                 /\ Nth(H, i) < Len(out)
                 /\ out[Nth(H, i) + 1].msg \in {"feature_files", "warning"}
                 /\ out[Nth(H, i) + 1].feature = features[i]
           /\ pc \in {"select", "target", "download", "summary"}
                 => Cardinality(H) = Len(features)
    /\ SummaryPrinted =>
          /\ Cardinality(At({"processing"})) = Len(chosen_features)
          /\ \A k \in 1..Len(chosen_features) :
                /\ out[Nth(At({"processing"}), k)].feature = chosen_features[k]
                /\ ListingFailed(k) =>
                      Segment(k) = <<[msg |-> "error_processing",
                                      feature |-> chosen_features[k]]>>
          /\ total_files = SumLen(Len(chosen_features))

\* a warning in the display and a listing error in the download phase, each
\* followed by a later feature that was listed / downloaded
C4_Witness ==
    /\ SummaryPrinted
    /\ \E i \in At({"warning"}) : \E j \in At({"feature_files"}) : i < j
    /\ \E i \in At({"error_processing"}) : \E j \in At({"downloaded"}) : i < j

\* C5: the closing message of the summary is "all applied" exactly when the
\* counters are equal and positive, "partially completed" exactly when
\* 0 < successful < total, and "no files downloaded" in every other case.
C5_SummaryVerdict ==
    \A i \in At({"summary"}) :
        LET m == out[i]
        IN  /\ m.total = total_files /\ m.successful = successful_downloads
            /\ m.verdict = "all_applied" <=> (m.successful = m.total /\ m.total > 0)
            /\ m.verdict = "partial" <=> (0 < m.successful /\ m.successful < m.total)
            /\ m.verdict = "none_downloaded"
                  <=> ~(m.successful = m.total /\ m.total > 0)
                      /\ ~(0 < m.successful /\ m.successful < m.total)

C5_Witness ==
    \E i \in At({"summary"}) :
        out[i].total = 0 /\ out[i].successful = 0 /\ out[i].verdict = "none_downloaded"

RawRequests == {q \in requests : q.url[1] = "raw"}

\* C6: the download phase is entered only with a non-empty selection and a
\* target directory; a run that ends with an empty selection or without a
\* target directory printed no "Processing feature" line, no per-file line
\* and no summary, requested no download and wrote no file.
C6_AbortBeforeDownload ==
    /\ pc \in {"download", "summary"} => chosen_features # <<>> /\ target_dir # ""
    /\ (pc = "done" /\ (chosen_features = <<>> \/ target_dir = ""))
          => /\ At({"processing", "error_processing", "summary"} \cup FileMsgs) = {}
             /\ RawRequests = {}
             /\ DOMAIN fs.files = {}
             /\ total_files = 0 /\ kidx = 0 /\ feature_files = <<>>

C6_Witness ==
    /\ pc = "done"
    /\ chosen_features # <<>> /\ target_dir = ""
    /\ At({"mkdir_error"}) # {}
    /\ At({"processing"}) = {}

C6_WitnessInvalid ==
    /\ pc = "done"
    /\ features # <<>> /\ chosen_features = <<>>
    /\ At({"invalid_input"}) # {}
    /\ At({"processing", "target"}) = {}

\* C8: without GITHUB_API_TOKEN the program still starts, and a request
\* carries an Authorization header exactly when a non-empty token is set.
C8_TokenOptional ==
    /\ tokenEnv = "absent" => pc # "crashed"
    /\ \A q \in requests :
          q.headers = (IF tokenEnv \in {"absent", ""} THEN NoHeaders
                                 ELSE <<"Authorization", "token", tokenEnv>>)

\* the completed downloads in order: the feature being processed and the path written
Writes ==
    LET D == At({"downloaded"})
    IN  [n \in 1..Cardinality(D) |->
            LET i == Nth(D, n)
                p == CHOOSE j \in At({"processing"}) :
                         j < i /\ \A h \in At({"processing"}) : h < i => h <= j
            IN  [feature |-> out[p].feature, path |-> out[i].path]]

Rel(path) == SubSeq(path, Len(PathOf(target_dir)) + 1, Len(path))

\* C10: every completed download was written to target_dir joined with the
\* file's path relative to its feature, fetched from the URL that names the
\* feature; a local file holds what the last completed download to its path
\* fetched, unless a later failed write truncated it; and each completed
\* download is counted, however many share a path.
C10_SharedDestination ==
    LET W == Writes
    IN  /\ successful_downloads = Len(W)
        /\ \A n \in 1..Len(W) :
              /\ \E j \in 1..Len(FilesOf(W[n].feature)) :
                    W[n].path = PathOf(target_dir) \o FilesOf(W[n].feature)[j]
              /\ \E q \in RawRequests :
                    q.url = RawUrl(W[n].feature, Rel(W[n].path))
              /\ W[n].path \in DOMAIN fs.files
        /\ \A path \in DOMAIN fs.files :
              fs.files[path] # <<>> =>
                  \E n \in 1..Len(W) :
                      /\ W[n].path = path
                      /\ \A h \in 1..Len(W) : W[h].path = path => h <= n
                      /\ fs.files[path] = RawContent(RawUrl(W[n].feature, Rel(path)))

\* two features list the same relative path: two counted downloads, one file
C10_Witness ==
    /\ SummaryPrinted
    /\ Len(Writes) = 2
    /\ Writes[1].path = Writes[2].path
    /\ Writes[1].feature # Writes[2].feature
    /\ successful_downloads = 2
    /\ Cardinality({Writes[n].path : n \in 1..2}) = 1
    /\ fs.files[Writes[2].path]
          = RawContent(RawUrl(Writes[2].feature, Rel(Writes[2].path)))

====
